---- MODULE Spec2Model ----
(***************************************************************************)
(* Model of the integer primitives of yojimbo_common.h: bit widths, byte   *)
(* order, zig-zag coding, wrap-aware 16 bit sequence comparison, and the   *)
(* packet sequence codec that the header declares.                         *)
(*                                                                         *)
(* Machine words wider than 31 bits are bit vectors: functions from the    *)
(* bit index 0..w-1 (bit 0 is the least significant) to {0,1}.  16 bit     *)
(* sequence numbers and signed 32 bit arguments are plain integers.        *)
(***************************************************************************)
EXTENDS Integers, Sequences, FiniteSets, TLC

\* ------------------------------------------------------------------------
\* Bounds of the input enumeration
\* ------------------------------------------------------------------------

\* half-width of the window of values taken around every anchor value
MaxDelta == 2

\* ------------------------------------------------------------------------
\* C++ integer operators on w-bit words
\* ------------------------------------------------------------------------

Width(x) == Cardinality(DOMAIN x)

\* a word as an explicit table of its bits: every operator below returns
\* its result in this form, so that no result is recomputed when read
Word(bits) == bits @@ <<>>

\* the statements of a function body are evaluated in order, arguments
\* first, and the value of the last one is returned
Do(statements) == statements[Len(statements)]

\* bit i of the natural number n (n < 2^31)
BitOf(n, i) == IF i >= 31 THEN 0 ELSE (n \div (2 ^ i)) % 2

\* the w-bit word holding the natural number n (n < 2^31)
FromNat(n, w) == Word([i \in 0..(w - 1) |-> BitOf(n, i)])

\* a hexadecimal literal, most significant digit first
FromHex(digits) ==
    Word([i \in 0..(4 * Len(digits) - 1) |->
              BitOf(digits[Len(digits) - (i \div 4)], i % 4)])

\* the hexadecimal digits of a word, most significant digit first: the
\* form in which the state records words
Hex(x) ==
    LET n == Width(x) \div 4
    IN  [k \in 1..n |->
            LET i == 4 * (n - k)
            IN  x[i] + 2 * x[i + 1] + 4 * x[i + 2] + 8 * x[i + 3]]

RECURSIVE ValOf(_, _, _)
\* the value of the bits lo..hi-1 of a word, bit lo having weight 1
ValOf(x, lo, hi) ==
    IF hi <= lo THEN 0
    ELSE IF hi - lo = 1 THEN x[lo]
    ELSE LET mid  == (lo + hi) \div 2
             high == ValOf(x, mid, hi)
         IN  ValOf(x, lo, mid) + (IF high = 0 THEN 0 ELSE high * (2 ^ (mid - lo)))

\* the value of a word (only used where it is below 2^31)
ToNat(x) == ValOf(x, 0, Width(x))

\* x & y
BAnd(x, y) == Word([i \in DOMAIN x |-> x[i] * y[i]])

\* x | y
BOr(x, y) == Word([i \in DOMAIN x |-> IF x[i] + y[i] > 0 THEN 1 ELSE 0])

\* x ^ y
BXor(x, y) == Word([i \in DOMAIN x |-> (x[i] + y[i]) % 2])

\* ~x
BNot(x) == Word([i \in DOMAIN x |-> 1 - x[i]])

\* x << k, bits shifted out of the word are lost
Shl(x, k) == Word([i \in DOMAIN x |-> IF i >= k THEN x[i - k] ELSE 0])

\* x >> k on an unsigned word
Shr(x, k) == Word([i \in DOMAIN x |-> IF i + k < Width(x) THEN x[i + k] ELSE 0])

\* x >> k on a signed word: the sign bit is replicated
Sar(x, k) == Word([i \in DOMAIN x |-> IF i + k < Width(x) THEN x[i + k] ELSE x[Width(x) - 1]])

\* carry into every bit position of x + y + cin: some lower position
\* generates a carry (both bits set), or the carry cin comes in, and every
\* position between propagates it (a bit set)
CarryIn(x, y, cin) ==
    [i \in 0..Width(x) |->
        IF \/ \E j \in 0..(i - 1) :
                 /\ x[j] + y[j] = 2
                 /\ \A k \in (j + 1)..(i - 1) : x[k] + y[k] > 0
           \/ cin = 1 /\ \A k \in 0..(i - 1) : x[k] + y[k] > 0
        THEN 1 ELSE 0]

\* x + y modulo 2^w
Add(x, y) == LET c == CarryIn(x, y, 0)
             IN  Word([i \in DOMAIN x |-> (x[i] + y[i] + c[i]) % 2])

\* x - y modulo 2^w
Sub(x, y) == LET ny == BNot(y)
                 c  == CarryIn(x, ny, 1)
             IN  Word([i \in DOMAIN x |-> (x[i] + ny[i] + c[i]) % 2])

\* -x modulo 2^w
Neg(x) == Sub(Word([i \in DOMAIN x |-> 0]), x)

\* conversion to a narrower unsigned type keeps the low w bits
Trunc(x, w) == Word([i \in 0..(w - 1) |-> x[i]])

\* conversion of an unsigned word to a wider type
ZExt(x, w) == Word([i \in 0..(w - 1) |-> IF i < Width(x) THEN x[i] ELSE 0])

\* x < y on unsigned words
ULess(x, y) ==
    \E i \in DOMAIN x : /\ x[i] < y[i]
                        /\ \A j \in DOMAIN x : j > i => x[j] = y[j]

\* x <= y on two's complement words
SLessEq(x, y) ==
    LET s == Width(x) - 1
    IN  \/ x = y
        \/ x[s] > y[s]
        \/ x[s] = y[s] /\ ULess(x, y)

\* a signed 32 bit integer as a two's complement word
FromInt32(n) ==
    IF n >= 0 THEN FromNat(n, 32)
    ELSE Word([i \in 0..31 |-> IF i = 31 THEN 1 ELSE BitOf((n + 2147483647) + 1, i)])

\* a two's complement word as a signed 32 bit integer
ToInt32(x) ==
    IF x[31] = 0 THEN ToNat(x)
    ELSE (ToNat(Trunc(x, 31)) - 2147483647) - 1

\* ------------------------------------------------------------------------
\* Wrap-aware comparison of 16 bit sequence numbers
\* ------------------------------------------------------------------------

\* the comparison without the wrapped case
sequence_greater_than_nowrap(s1, s2) ==
    (s1 > s2) /\ (s1 - s2 <= 32768)

\* the comparison with a strict bound on the forward distance
sequence_greater_than_strict(s1, s2) ==
    \/ (s1 > s2) /\ (s1 - s2 < 32768)
    \/ (s1 < s2) /\ (s2 - s1 > 32768)

\* the comparison with a non-strict bound on the backward distance
sequence_greater_than_loose(s1, s2) ==
    \/ (s1 > s2) /\ (s1 - s2 <= 32768)
    \/ (s1 < s2) /\ (s2 - s1 >= 32768)

sequence_greater_than(s1, s2) ==
    \/ (s1 > s2) /\ (s1 - s2 <= 32768)
    \/ (s1 < s2) /\ (s2 - s1 > 32768)

sequence_less_than(s1, s2) == sequence_greater_than(s2, s1)

\* ------------------------------------------------------------------------
\* Bit widths
\* ------------------------------------------------------------------------

\* hexadecimal literals of the population count
Hex55555555 == FromHex(<<5, 5, 5, 5, 5, 5, 5, 5>>)
Hex33333333 == FromHex(<<3, 3, 3, 3, 3, 3, 3, 3>>)
Hex0f0f0f0f == FromHex(<<0, 15, 0, 15, 0, 15, 0, 15>>)
Hex0000003f == FromHex(<<0, 0, 0, 0, 0, 0, 3, 15>>)

\* template <uint32_t x> struct PopCount
PopCount(x) ==
    LET a == Sub(x, BAnd(Shr(x, 1), Hex55555555))
        b == Add(BAnd(Shr(a, 2), Hex33333333), BAnd(a, Hex33333333))
        c == BAnd(Add(Shr(b, 4), b), Hex0f0f0f0f)
        d == Add(c, Shr(c, 8))
        e == Add(d, Shr(d, 16))
    IN  Do(<<x, a, b, c, d, e, BAnd(e, Hex0000003f)>>)

\* template <uint32_t x> struct Log2
Log2(x) ==
    LET a == BOr(x, Shr(x, 1))
        b == BOr(a, Shr(a, 2))
        c == BOr(b, Shr(b, 4))
        d == BOr(c, Shr(c, 8))
        e == BOr(d, Shr(d, 16))
        f == Shr(e, 1)
    IN  Do(<<x, a, b, c, d, e, f, PopCount(f)>>)

\* template <int64_t min, int64_t max> struct BitsRequired; min and max
\* are 64 bit two's complement words, the result is a number
BitsRequired(min, max) ==
    LET range  == Trunc(Sub(max, min), 32)
        log    == Log2(range)
    IN  IF min = max THEN 0 ELSE Do(<<range, log, ToNat(log) + 1>>)

\* __builtin_popcount: the number of bits set
builtin_popcount(x) == FromNat(Cardinality({i \in DOMAIN x : x[i] = 1}), 32)

\* the index of the most significant bit set of a word that is not zero
HighestSetBit(x) ==
    CHOOSE i \in DOMAIN x : x[i] = 1 /\ \A j \in DOMAIN x : j > i => x[j] = 0

\* what __builtin_clz may return for 0, where its result is undefined: the
\* leading zero count 32 of lzcnt/clz hardware, or whatever a bsr based
\* sequence leaves in the register
ClzOfZero == 0..32

\* __builtin_clz: the number of leading zero bits; undef is the outcome
\* for the argument 0
builtin_clz(x, undef) ==
    IF \A i \in DOMAIN x : x[i] = 0 THEN undef ELSE 31 - HighestSetBit(x)

\* gnu tells whether __GNUC__ is defined
popcount(x, gnu) ==
    IF gnu
    THEN builtin_popcount(x)
    ELSE LET a == Sub(x, BAnd(Shr(x, 1), Hex55555555))
             b == Add(BAnd(Shr(a, 2), Hex33333333), BAnd(a, Hex33333333))
             c == BAnd(Add(Shr(b, 4), b), Hex0f0f0f0f)
             d == Add(c, Shr(c, 8))
             e == Add(d, Shr(d, 16))
         IN  Do(<<x, a, b, c, d, e, BAnd(e, Hex0000003f)>>)

log2(x, gnu) ==
    LET a == BOr(x, Shr(x, 1))
        b == BOr(a, Shr(a, 2))
        c == BOr(b, Shr(b, 4))
        d == BOr(c, Shr(c, 8))
        e == BOr(d, Shr(d, 16))
        f == Shr(e, 1)
    IN  Do(<<x, a, b, c, d, e, f, popcount(f, gnu)>>)

\* min and max are 32 bit words, the result is a number; undef is the
\* outcome of __builtin_clz( 0 )
bits_required(min, max, gnu, undef) ==
    LET range == Sub(max, min)
        log   == log2(range, gnu)
    IN  IF gnu
        THEN Do(<<range, 32 - builtin_clz(range, undef)>>)
        ELSE IF min = max THEN 0 ELSE Do(<<range, log, ToNat(log) + 1>>)

\* ------------------------------------------------------------------------
\* Byte order
\* ------------------------------------------------------------------------

\* __builtin_bswap32 and __builtin_bswap64: byte k becomes byte n-1-k
builtin_bswap(value) ==
    LET n == Width(value) \div 8
    IN  Word([i \in DOMAIN value |-> value[8 * (n - 1 - (i \div 8)) + (i % 8)]])

\* uint64_t bswap( uint64_t value ); gnu tells whether __GNUC__ is defined
bswap64(value, gnu) ==
    IF gnu
    THEN builtin_bswap(value)
    ELSE LET v1 == BOr(Shl(BAnd(value, FromHex(<<0, 0, 0, 0, 0, 0, 0, 0, 15, 15, 15, 15, 15, 15, 15, 15>>)), 32),
                       Shr(BAnd(value, FromHex(<<15, 15, 15, 15, 15, 15, 15, 15, 0, 0, 0, 0, 0, 0, 0, 0>>)), 32))
             v2 == BOr(Shl(BAnd(v1, FromHex(<<0, 0, 0, 0, 15, 15, 15, 15, 0, 0, 0, 0, 15, 15, 15, 15>>)), 16),
                       Shr(BAnd(v1, FromHex(<<15, 15, 15, 15, 0, 0, 0, 0, 15, 15, 15, 15, 0, 0, 0, 0>>)), 16))
             v3 == BOr(Shl(BAnd(v2, FromHex(<<0, 0, 15, 15, 0, 0, 15, 15, 0, 0, 15, 15, 0, 0, 15, 15>>)), 8),
                       Shr(BAnd(v2, FromHex(<<15, 15, 0, 0, 15, 15, 0, 0, 15, 15, 0, 0, 15, 15, 0, 0>>)), 8))
         IN  Do(<<value, v1, v2, v3>>)

\* bswap32 with the third byte shifted by 16 instead of 8
bswap32_shift16(value, gnu) ==
    IF gnu
    THEN builtin_bswap(value)
    ELSE BOr(BOr(BOr(Shl(BAnd(value, FromHex(<<0, 0, 0, 0, 0, 0, 15, 15>>)), 24),
                     Shl(BAnd(value, FromHex(<<0, 0, 0, 0, 15, 15, 0, 0>>)), 8)),
                 Shr(BAnd(value, FromHex(<<0, 0, 15, 15, 0, 0, 0, 0>>)), 16)),
             Shr(BAnd(value, FromHex(<<15, 15, 0, 0, 0, 0, 0, 0>>)), 24))

\* uint32_t bswap( uint32_t value )
bswap32(value, gnu) ==
    IF gnu
    THEN builtin_bswap(value)
    ELSE BOr(BOr(BOr(Shl(BAnd(value, FromHex(<<0, 0, 0, 0, 0, 0, 15, 15>>)), 24),
                     Shl(BAnd(value, FromHex(<<0, 0, 0, 0, 15, 15, 0, 0>>)), 8)),
                 Shr(BAnd(value, FromHex(<<0, 0, 15, 15, 0, 0, 0, 0>>)), 8)),
             Shr(BAnd(value, FromHex(<<15, 15, 0, 0, 0, 0, 0, 0>>)), 24))

\* uint16_t bswap( uint16_t value ): the operands are promoted to int and
\* the result is converted back to 16 bits
bswap16(value) ==
    LET v == ZExt(value, 32)
    IN  Do(<<v, Trunc(BOr(Shl(BAnd(v, ZExt(FromHex(<<0, 0, 15, 15>>), 32)), 8),
                  Shr(BAnd(v, ZExt(FromHex(<<15, 15, 0, 0>>), 32)), 8)), 16)>>)

\* overload resolution on the width of the argument
bswap(value, gnu) ==
    CASE Width(value) = 64 -> bswap64(value, gnu)
      [] Width(value) = 32 -> bswap32(value, gnu)
      [] Width(value) = 16 -> bswap16(value)

\* big tells whether YOJIMBO_BIG_ENDIAN is set
host_to_network(value, big, gnu) ==
    Do(<<value, IF big THEN bswap(value, gnu) ELSE value>>)

network_to_host(value, big, gnu) ==
    Do(<<value, IF big THEN bswap(value, gnu) ELSE value>>)

\* ------------------------------------------------------------------------
\* Zig-zag coding; arguments and results are 32 bit words
\* ------------------------------------------------------------------------

\* signed_to_unsigned with a logical right shift
signed_to_unsigned_logical(n) == Do(<<n, BXor(Shl(n, 1), Shr(n, 31))>>)

signed_to_unsigned(n) == Do(<<n, BXor(Shl(n, 1), Sar(n, 31))>>)

\* unsigned_to_signed without the negation of the low bit
unsigned_to_signed_no_negation(n) ==
    Do(<<n, BXor(Shr(n, 1), BAnd(n, FromNat(1, 32)))>>)

unsigned_to_signed(n) == Do(<<n, BXor(Shr(n, 1), Neg(BAnd(n, FromNat(1, 32))))>>)

\* ------------------------------------------------------------------------
\* Packet sequence codec.  The header only declares the three functions;
\* the bodies follow the byte-count ladder of the design: the prefix byte
\* is the number of payload bytes, 1 to 8, and the payload is the sequence
\* number's low bytes, least significant first.  Bytes are numbers 0..255.
\* ------------------------------------------------------------------------

\* byte k (0 is the least significant) of a 64 bit word
ByteOf(sequence, k) == ToNat([i \in 0..7 |-> sequence[8 * k + i]])

\* the least number of bytes, at least 1, that hold the sequence number
SequenceBytesNeeded(sequence) ==
    CHOOSE n \in 1..8 :
        /\ \A k \in n..7 : ByteOf(sequence, k) = 0
        /\ \A m \in 1..(n - 1) : \E k \in m..7 : ByteOf(sequence, k) # 0

compress_packet_sequence(sequence) ==
    LET n == SequenceBytesNeeded(sequence)
    IN  [prefix_byte        |-> n,
         num_sequence_bytes |-> n,
         sequence_bytes     |-> [k \in 1..n |-> ByteOf(sequence, k - 1)]]

\* a payload length one longer than the prefix byte says
get_packet_sequence_bytes_plus_one(prefix_byte) == prefix_byte + 1

get_packet_sequence_bytes(prefix_byte) == prefix_byte

\* reads get_packet_sequence_bytes( prefix_byte ) bytes of the buffer
decompress_packet_sequence(prefix_byte, sequence_bytes) ==
    LET n == get_packet_sequence_bytes(prefix_byte)
    IN  Word([i \in 0..63 |->
                 IF i \div 8 < n THEN BitOf(sequence_bytes[(i \div 8) + 1], i % 8)
                 ELSE 0])

\* ------------------------------------------------------------------------
\* Inputs
\* ------------------------------------------------------------------------

\* 16 bit sequence numbers around the wrap point, the half-way point and
\* the other multiples of 8192
SeqAnchors == {0, 8192, 16384, 24576, 32768, 40960, 49152, 57344}
SeqSamples ==
    { (a + 65536 + d) % 65536 : a \in SeqAnchors, d \in (-MaxDelta)..MaxDelta }

\* the w-bit word 2^k
Pow2(k, w) == Word([i \in 0..(w - 1) |-> IF i = k THEN 1 ELSE 0])

\* the words within MaxDelta of an anchor, modulo 2^w
Around(anchors, w) ==
    UNION { { Add(a, FromNat(d, w)), Sub(a, FromNat(d, w)) } :
            a \in anchors, d \in 0..MaxDelta }

\* 32 bit ranges max - min: around 0, 2^32 - 1 and every power of two,
\* and two mixed bit patterns
RangeSamples32 ==
    Around({ Pow2(k, 32) : k \in 0..31 } \cup { FromNat(0, 32) }, 32)
        \cup { Hex55555555, FromHex(<<0, 0, 12, 0, 15, 15, 14, 14>>) }

MinSamples32 == { FromNat(0, 32), FromNat(5, 32), Pow2(31, 32) }

\* 64 bit ranges max - min: below, at and above 2^32
RangeSamples64 ==
    Around({ Pow2(k, 64) : k \in {8, 16, 24, 30, 31, 32, 33, 40, 48, 56, 62} }
               \cup { FromNat(0, 64) }, 64)
        \ { r \in Around({ FromNat(0, 64) }, 64) : r[63] = 1 }

\* signed 64 bit lower bounds: 0, 10, -3 and -2^31
MinSamples64 ==
    { FromNat(0, 64), FromNat(10, 64), Sub(FromNat(0, 64), FromNat(3, 64)),
      Sub(FromNat(0, 64), Pow2(31, 64)) }

\* words of every width: around 0 and 2^w - 1, around byte boundaries and
\* the top bit, and one word whose bytes all differ
WordSamples(w) ==
    CASE w = 16 -> Around({ Pow2(k, 16) : k \in {8, 15} } \cup { FromNat(0, 16) }, 16)
                       \cup { FromHex(<<1, 2, 3, 4>>) }
      [] w = 32 -> Around({ Pow2(k, 32) : k \in {8, 16, 24, 31} } \cup { FromNat(0, 32) }, 32)
                       \cup { FromHex(<<1, 2, 3, 4, 5, 6, 7, 8>>) }
      [] w = 64 -> Around({ Pow2(k, 64) : k \in {8, 16, 24, 32, 40, 48, 56, 63} }
                              \cup { FromNat(0, 64) }, 64)
                       \cup { FromHex(<<0, 1, 2, 3, 4, 5, 6, 7, 8, 9, 10, 11, 12, 13, 14, 15>>) }

INT32_MAX == 2147483647
INT32_MIN == (-2147483647) - 1

\* signed 32 bit integers: around 0, +-2^8, +-2^16, +-2^24 and +-2^30, and
\* at both extremes
Int32Samples ==
    { a + d : a \in {0, 256, -256, 65536, -65536, 16777216, -16777216,
                     1073741824, -1073741824},
              d \in (-MaxDelta)..MaxDelta }
        \cup { INT32_MIN + d : d \in 0..MaxDelta }
        \cup { INT32_MAX - d : d \in 0..MaxDelta }

\* 64 bit packet sequence numbers on both sides of every byte-count
\* boundary, 0 and 2^64 - 1 included
PacketSequenceSamples ==
    Around({ Pow2(8 * k, 64) : k \in 1..7 } \cup { FromNat(0, 64) }, 64)

\* the bytes that follow the payload in the receiver's buffer
TrailingBytes == <<170, 85>>

\* ------------------------------------------------------------------------
\* State: the build configuration and the last call made with its result
\* ------------------------------------------------------------------------

VARIABLES gnuc, big_endian, op, args, result

vars == <<gnuc, big_endian, op, args, result>>

Init ==
    /\ gnuc \in BOOLEAN
    /\ big_endian \in BOOLEAN
    /\ op = "none"
    /\ args = <<>>
    /\ result = <<>>

\* one call is made per run: every action starts from the state before a call
Idle == op = "none"

CompareSequences ==
    \E s1 \in SeqSamples, s2 \in SeqSamples :
        /\ Idle
        /\ op' = "sequence_compare"
        /\ args' = <<s1, s2>>
        /\ result' = [greater     |-> sequence_greater_than(s1, s2),
                      less        |-> sequence_less_than(s1, s2),
                      greater_rev |-> sequence_greater_than(s2, s1),
                      less_rev    |-> sequence_less_than(s2, s1)]
        /\ UNCHANGED <<gnuc, big_endian>>

\* a call of the runtime bits_required with min <= max
CallBitsRequired ==
    \E min \in MinSamples32, range \in RangeSamples32 :
        LET max == Add(min, range) IN
        /\ Idle
        /\ ~ULess(max, min)
        /\ \E undef \in (IF gnuc /\ min = max THEN ClzOfZero ELSE {0}) :
               result' = bits_required(min, max, gnuc, undef)
        /\ op' = "bits_required"
        /\ args' = <<Hex(min), Hex(max)>>
        /\ UNCHANGED <<gnuc, big_endian>>

\* an instantiation of the compile-time BitsRequired with min <= max
InstantiateBitsRequired ==
    \E min \in MinSamples64, range \in RangeSamples64 :
        LET max == Add(min, range) IN
        /\ Idle
        /\ SLessEq(min, max)
        /\ result' = BitsRequired(min, max)
        /\ op' = "BitsRequired"
        /\ args' = <<Hex(min), Hex(max)>>
        /\ UNCHANGED <<gnuc, big_endian>>

\* a value is swapped, swapped back, and sent through the wire byte order
ConvertByteOrder ==
    \E w \in {16, 32, 64} : \E x \in WordSamples(w) :
        /\ Idle
        /\ op' = "byte_order"
        /\ args' = <<Hex(x)>>
        /\ result' = [swapped |-> Hex(bswap(x, gnuc)),
                      twice   |-> Hex(bswap(bswap(x, gnuc), gnuc)),
                      wire    |-> Hex(host_to_network(x, big_endian, gnuc)),
                      host    |-> Hex(network_to_host(
                                          host_to_network(x, big_endian, gnuc),
                                          big_endian, gnuc))]
        /\ UNCHANGED <<gnuc, big_endian>>

\* two signed integers are encoded and the first is decoded again; the
\* int result of signed_to_unsigned converts to the uint32_t parameter of
\* unsigned_to_signed without a change of bits
ZigZag ==
    \E a \in Int32Samples, b \in Int32Samples :
        /\ Idle
        /\ op' = "zig_zag"
        /\ args' = <<a, b>>
        /\ result' = [ua   |-> Hex(signed_to_unsigned(FromInt32(a))),
                      ub   |-> Hex(signed_to_unsigned(FromInt32(b))),
                      back |-> ToInt32(unsigned_to_signed(
                                           signed_to_unsigned(FromInt32(a))))]
        /\ UNCHANGED <<gnuc, big_endian>>

\* a sequence number is compressed and the receiver decompresses it from
\* a buffer in which other packet data follows the payload
CodePacketSequence ==
    \E sequence \in PacketSequenceSamples :
        LET sent == compress_packet_sequence(sequence) IN
        /\ Idle
        /\ op' = "packet_sequence"
        /\ args' = <<Hex(sequence)>>
        /\ result' = [prefix_byte    |-> sent.prefix_byte,
                      sequence_bytes |-> sent.sequence_bytes,
                      decompressed   |-> Hex(decompress_packet_sequence(
                                                 sent.prefix_byte,
                                                 sent.sequence_bytes \o TrailingBytes))]
        /\ UNCHANGED <<gnuc, big_endian>>

Next ==
    \/ CompareSequences
    \/ CallBitsRequired
    \/ InstantiateBitsRequired
    \/ ConvertByteOrder
    \/ ZigZag
    \/ CodePacketSequence

Spec == Init /\ [][Next]_vars

\* ------------------------------------------------------------------------
\* Properties of the sequence comparison
\* ------------------------------------------------------------------------

Compared == op = "sequence_compare"

\* the forward distance from s to t in the cyclic 16 bit space
Forward(s, t) == (t + 65536 - s) % 65536

\* the second argument is the tie partner of the first
IsTie == Compared /\ args[2] = (args[1] + 32768) % 65536

\* C1 (as stated): for every 16 bit s and its tie partner
\* t = (s + 32768) mod 65536, sequence_greater_than(s, t) is false.
C1_TieNeverGreater == IsTie => result.greater = FALSE

\* C1 (amended): at the exact half-way distance the numerically larger
\* value is the greater one: sequence_greater_than(s, t) is false for
\* s < 32768 (where t = s + 32768 > s) and true for s >= 32768 (where
\* t = s - 32768 < s).
C1_TieBrokenByMagnitude == IsTie => (result.greater <=> (args[1] >= 32768))

C1_Witness == IsTie /\ args[1] < 32768 /\ result.greater = FALSE

\* C2: when s1 is 1..32767 steps after s2 modulo 65536, wrapped or not,
\* sequence_greater_than(s1, s2) and sequence_less_than(s2, s1) are true.
C2_LaterIsGreater ==
    Compared =>
        /\ Forward(args[2], args[1]) \in 1..32767 => result.greater /\ result.less_rev
        /\ Forward(args[1], args[2]) \in 1..32767 => result.less /\ result.greater_rev

\* a later sequence number that wrapped past 65535 compares as greater
C2_Witness ==
    /\ Compared
    /\ args[1] < args[2]
    /\ Forward(args[2], args[1]) \in 1..32767
    /\ result.greater
    /\ result.less_rev

Below2Pow(x, k) == \A i \in DOMAIN x : i >= k => x[i] = 0

\* the smallest k >= 0 with 2^k > x
SmallestK(x) ==
    CHOOSE k \in 0..Width(x) :
        Below2Pow(x, k) /\ \A j \in 0..(k - 1) : ~Below2Pow(x, j)

\* C3: for uint32 min <= max, bits_required(min, max) is the smallest
\* k >= 0 with 2^k > max - min: 0 when min == max, 32 when
\* max - min == 2^32 - 1.
C3_BitsRequiredIsSmallestK ==
    op = "bits_required" =>
        result = SmallestK(Sub(FromHex(args[2]), FromHex(args[1])))

\* C4: for uint32 min <= max, min == max included, the intrinsic path of
\* bits_required returns what the portable fallback path returns.
C4_IntrinsicEqualsFallback ==
    (op = "bits_required" /\ gnuc) =>
        result = bits_required(FromHex(args[1]), FromHex(args[2]), FALSE, 0)

\* C5: for signed 64 bit min <= max, BitsRequired<min,max>::result is the
\* smallest k with 2^k > max - min (0 when min == max), also when
\* max - min does not fit in 32 bits.
C5_TemplateIsSmallestK ==
    op = "BitsRequired" =>
        result = SmallestK(Sub(FromHex(args[2]), FromHex(args[1])))

\* ------------------------------------------------------------------------
\* Properties of the zig-zag coding
\* ------------------------------------------------------------------------

\* C6: for every signed 32 bit n, extremes included,
\* unsigned_to_signed(signed_to_unsigned(n)) == n.
C6_ZigZagRoundTrip == op = "zig_zag" => result.back = args[1]

\* the most negative integer is encoded and decoded
C6_Witness == op = "zig_zag" /\ args[1] = INT32_MIN /\ result.back = INT32_MIN

\* the unsigned value u is 2n for n >= 0 and -2n - 1 for n < 0, stated on
\* the halves so that no number exceeds 2^31 - 1
IsZigZagOf(u, n) ==
    IF n >= 0
    THEN u[0] = 0 /\ ToNat(Shr(u, 1)) = n
    ELSE u[0] = 1 /\ ToNat(Shr(u, 1)) = -(n + 1)

\* -|n|, which every signed 32 bit n has
NegAbs(n) == IF n > 0 THEN -n ELSE n

\* C7: signed_to_unsigned(n), read as unsigned, is 2n when n >= 0 and
\* -2n - 1 when n < 0, so a smaller magnitude never maps to a larger
\* unsigned value than a larger magnitude does.
C7_ZigZagValue ==
    op = "zig_zag" =>
        /\ IsZigZagOf(FromHex(result.ua), args[1])
        /\ IsZigZagOf(FromHex(result.ub), args[2])
        /\ NegAbs(args[1]) > NegAbs(args[2]) =>
               ~ULess(FromHex(result.ub), FromHex(result.ua))

\* -1 maps to 1 and is compared with the most negative integer
C7_Witness ==
    /\ op = "zig_zag"
    /\ args = <<-1, INT32_MIN>>
    /\ result.ua = <<0, 0, 0, 0, 0, 0, 0, 1>>
    /\ result.ub = <<15, 15, 15, 15, 15, 15, 15, 15>>

\* ------------------------------------------------------------------------
\* Properties of the byte order
\* ------------------------------------------------------------------------

\* C8: for every width, bswap(bswap(x)) == x, with the portable bodies as
\* with the intrinsics, and network_to_host(host_to_network(x)) == x under
\* either value of YOJIMBO_BIG_ENDIAN; the conversions are the identity
\* when the flag is 0 and bswap when it is 1.
C8_SwapTwiceAndRoundTrip ==
    op = "byte_order" =>
        /\ result.twice = args[1]
        /\ result.host = args[1]
        /\ result.wire = (IF big_endian THEN result.swapped ELSE args[1])

\* a 32 bit word is swapped by the portable body on a big endian build
C8_Witness ==
    /\ op = "byte_order"
    /\ ~gnuc
    /\ big_endian
    /\ args[1] = <<1, 2, 3, 4, 5, 6, 7, 8>>
    /\ result.wire = <<7, 8, 5, 6, 3, 4, 1, 2>>
    /\ result.host = args[1]

\* ------------------------------------------------------------------------
\* Properties of the packet sequence codec
\* ------------------------------------------------------------------------

\* C9: for every 64 bit sequence number, decompress_packet_sequence on the
\* prefix byte and payload bytes of compress_packet_sequence(seq) returns
\* seq, the decoder reading get_packet_sequence_bytes(prefix_byte) bytes.
C9_PacketSequenceRoundTrip ==
    op = "packet_sequence" =>
        /\ result.decompressed = args[1]
        /\ get_packet_sequence_bytes(result.prefix_byte) = Len(result.sequence_bytes)

\* 2^32 takes five payload bytes and comes back
C9_Witness ==
    /\ op = "packet_sequence"
    /\ args[1] = <<0, 0, 0, 0, 0, 0, 0, 1, 0, 0, 0, 0, 0, 0, 0, 0>>
    /\ result.sequence_bytes = <<0, 0, 0, 0, 1>>
    /\ result.decompressed = args[1]

====
